---- MODULE Spec2Model ----
(***************************************************************************)
(* Model of Y.DataTable.BodyView (src/src/datatable/js/body.js): the view  *)
(* that renders the <tbody> of a table from a flat list of columns and a   *)
(* ModelList.  Strings that are rendered into cells are sequences of       *)
(* one-character strings, so that HTML escaping is computed character by   *)
(* character; keys, names and render tokens are TLA+ strings.              *)
(***************************************************************************)
EXTENDS Integers, Sequences, FiniteSets, TLC

VARIABLES
    source,         \* this.source: TRUE when config.source was given
    srcColumns,     \* the (nested) columns configuration last given to the view
    columns,        \* this.columns: the flat list kept by the view
    _rowTemplate,   \* this._rowTemplate
    container,      \* the 'container' attribute: [present, rows]
    modelList,      \* the 'modelList' attribute: [present, models]
    _eventHandles,  \* this._eventHandles
    calls,          \* formatter calls and container writes of the last render
    last            \* the last operation and how it ended

vars == <<source, srcColumns, columns, _rowTemplate, container, modelList,
          _eventHandles, calls, last>>

----------------------------------------------------------------------------
(* JavaScript values *)

\* The value undefined, where a rendered string is expected.
Undefined == <<"undefined">>

\* A formatter field that the formatter leaves as it found it.
Keep == <<"keep">>

\* The boolean false returned by a nodeFormatter.
False == <<"false">>

\* config.columns or col.children: an array, or something that is no array.
Arr(items) == [isArray |-> TRUE, items |-> items]

NotArray == [isArray |-> FALSE, items |-> <<>>]

isArray(data) == data.isArray

\* No formatter / nodeFormatter configured on the column.
NoFormatter ==
    [type |-> "none", template |-> <<>>, returns |-> Undefined, setsValue |-> Keep,
     setsClassnames |-> Keep, setsRowClasses |-> Keep, injects |-> <<>>]

\* A formatter that is a function: what it returns and what it assigns on
\* the object o it is passed (o.value, o.classnames, o.data.rowClasses).
FunctionFormatter(ret, val, cls, rowCls) ==
    [type |-> "function", template |-> <<>>, returns |-> ret, setsValue |-> val,
     setsClassnames |-> cls, setsRowClasses |-> rowCls, injects |-> <<>>]

\* A formatter (or nodeFormatter) that throws.
ThrowingFormatter ==
    [type |-> "throws", template |-> <<>>, returns |-> Undefined, setsValue |-> Keep,
     setsClassnames |-> Keep, setsRowClasses |-> Keep, injects |-> <<>>]

\* A nodeFormatter: the content it injects into o.cell and what it returns.
NodeFormatter(ret, content) ==
    [type |-> "function", template |-> <<>>, returns |-> ret, setsValue |-> Keep,
     setsClassnames |-> Keep, setsRowClasses |-> Keep, injects |-> content]

\* A template piece: literal text, or a {name} placeholder.
Lit(text) == [ph |-> FALSE, name |-> "", text |-> text]

Ph(name) == [ph |-> TRUE, name |-> name, text |-> <<>>]

\* A formatter that is a string: a template over the formatter data.
StringFormatter(pieces) ==
    [type |-> "string", template |-> pieces, returns |-> Undefined, setsValue |-> Keep,
     setsClassnames |-> Keep, setsRowClasses |-> Keep, injects |-> <<>>]

\* A column configuration object.  "" stands for an absent key or name
\* (both are tested for truthiness only).
Column(key, name, formatter, nodeFormatter, emptyCellValue, allowHTML, children, yuid) ==
    [key |-> key, name |-> name, formatter |-> formatter,
     nodeFormatter |-> nodeFormatter, emptyCellValue |-> emptyCellValue,
     allowHTML |-> allowHTML, children |-> children, _yuid |-> yuid,
     index |-> -1, _renderToken |-> ""]

\* A column given as a bare string in the configuration.
Shorthand(key) == [str |-> key]

\* A Model: its clientId and its attributes, a function from keys to values.
Model(clientId, attrs) == [clientId |-> clientId, attrs |-> attrs]

----------------------------------------------------------------------------
(* Library functions used by the view *)

\* Y.Escape.html, one character.  The cell texts of this model are written
\* over letters, digits and the characters & < > only.
EscapeChar(c) ==
    CASE c = "&" -> <<"&", "a", "m", "p", ";">>
      [] c = "<" -> <<"&", "l", "t", ";">>
      [] c = ">" -> <<"&", "g", "t", ";">>
      [] OTHER   -> <<c>>

RECURSIVE htmlEscape(_)
\* Y.Escape.html: every HTML-significant character replaced by its entity.
\* undefined is turned into the string "undefined" first.
htmlEscape(s) ==
    IF s = <<>> THEN <<>>
    ELSE IF s = Undefined THEN <<"u", "n", "d", "e", "f", "i", "n", "e", "d">>
    ELSE EscapeChar(Head(s)) \o htmlEscape(Tail(s))

\* Y.Lang.sub on one placeholder: {name} is replaced by o[name] when that is
\* defined, and left as it is otherwise.
fromTemplate(slot, o) ==
    IF slot.ph /\ slot.name \in DOMAIN o /\ o[slot.name] # Undefined
    THEN Lit(o[slot.name])
    ELSE slot

\* o[name] := v
Put(o, name, v) == (name :> v) @@ o

\* o[name], undefined when o has no such property
Get(o, name) == IF name \in DOMAIN o THEN o[name] ELSE Undefined

EmptyObject == [n \in {} |-> Undefined]

----------------------------------------------------------------------------
(* _parseColumns *)

\* a column given as a string stands for { key: col }
toColumn(col) ==
    IF "str" \in DOMAIN col
    THEN Column(col.str, "", NoFormatter, NoFormatter, Undefined, FALSE, NotArray, "")
    ELSE col

RECURSIVE _parseColumns(_, _)
RECURSIVE ParseFrom(_, _, _)

\* The for loop of _parseColumns, from entry i on.
ParseFrom(data, i, cols) ==
    IF i > Len(data) THEN cols
    ELSE LET col == toColumn(data[i]) IN
         IF col.key # "" \/ col.formatter.type # "none" \/ col.nodeFormatter.type # "none"
         THEN ParseFrom(data, i + 1, Append(cols, [col EXCEPT !.index = Len(cols)]))
         ELSE IF isArray(col.children)
         THEN ParseFrom(data, i + 1, _parseColumns(col.children, cols))
         ELSE ParseFrom(data, i + 1, cols)

_parseColumns(data, cols) ==
    IF isArray(data) /\ Len(data.items) > 0
    THEN ParseFrom(data.items, 1, cols)
    ELSE cols

----------------------------------------------------------------------------
(* The view instance *)

\* The instance as the methods see it through this.
Self ==
    [source |-> source, columns |-> columns, _rowTemplate |-> _rowTemplate,
     container |-> container, modelList |-> modelList,
     _eventHandles |-> _eventHandles, calls |-> calls, thrown |-> ""]

\* '<td headers="{headers}" class="{classes}">{content}</td>'; the headers
\* attribute is not modelled.
CELL_TEMPLATE == [classes |-> Ph("classes"), content |-> Ph("content")]

\* '<tr id="{clientId}" class="{rowClasses}">{content}</tr>'
ROW_TEMPLATE ==
    [id |-> Ph("clientId"), rowClasses |-> Ph("rowClasses"), content |-> Ph("content")]

CLASS_ODD == <<"o", "d", "d">>

CLASS_EVEN == <<"e", "v", "e", "n">>

\* An entry of the call log.
Call(fn, row, col) == [fn |-> fn, row |-> row, col |-> col]

----------------------------------------------------------------------------
(* _createRowTemplate *)

\* The token of the column with this key, given the tokens object.
TokenFor(col, tokens) ==
    IF col.key # ""
    THEN IF col.key \in DOMAIN tokens
         THEN col.key \o ToString(tokens[col.key])
         ELSE col.key
    ELSE IF col.name # "" THEN col.name ELSE col._yuid

\* The tokens object after the column with this key.
TokensAfter(col, tokens) ==
    IF col.key # ""
    THEN IF col.key \in DOMAIN tokens
         THEN Put(tokens, col.key, tokens[col.key] + 1)
         ELSE Put(tokens, col.key, 1)
    ELSE tokens

\* The cell markup of one column: CELL_TEMPLATE filled with tokenValues.
CellTemplate(col, token) ==
    IF col.nodeFormatter.type # "none"
    THEN [classes |-> [className |-> "", extra |-> Lit(<<>>)],
          content |-> Lit(<<>>)]
    ELSE [classes |-> [className |-> col.key, extra |-> Ph(token \o "-classes")],
          content |-> Ph(token)]

RECURSIVE TemplateFrom(_, _, _, _)
\* The for loop of _createRowTemplate, from column i on.
TemplateFrom(cols, i, tokens, html) ==
    IF i > Len(cols) THEN [columns |-> cols, html |-> html]
    ELSE LET token == TokenFor(cols[i], tokens) IN
         TemplateFrom([cols EXCEPT ![i]._renderToken = token], i + 1,
                      TokensAfter(cols[i], tokens),
                      Append(html, CellTemplate(cols[i], token)))

\* Assigns every column its _renderToken and the instance its _rowTemplate.
_createRowTemplate(self, cols) ==
    LET built == TemplateFrom(cols, 1, EmptyObject, <<>>) IN
    [self EXCEPT !.columns = built.columns,
                 !._rowTemplate = [ROW_TEMPLATE EXCEPT !.content = built.html]]

----------------------------------------------------------------------------
(* _createRowHTML *)

\* The data object of a formatter call.
FormatterData(value, data) == [value |-> value, data |-> data, classnames |-> <<>>]

\* What a function formatter leaves in the object o it is called with.
Mutated(formatter, o) ==
    [value      |-> IF formatter.setsValue = Keep THEN o.value ELSE formatter.setsValue,
     classnames |-> IF formatter.setsClassnames = Keep THEN o.classnames
                    ELSE formatter.setsClassnames,
     data       |-> IF formatter.setsRowClasses = Keep THEN o.data
                    ELSE Put(o.data, "rowClasses", formatter.setsRowClasses)]

\* The text of an unresolved placeholder of a string formatter.
Braced(name) ==
    IF name = "value" THEN <<"{", "v", "a", "l", "u", "e", "}">>
    ELSE <<"{", "}">>

RECURSIVE SubString(_, _)
\* Y.Lang.sub of a string formatter with the formatter data.
SubString(pieces, o) ==
    IF pieces = <<>> THEN <<>>
    ELSE LET p == Head(pieces)
             t == IF ~p.ph THEN p.text
                  ELSE IF p.name = "value" /\ o.value # Undefined THEN o.value
                  ELSE IF p.name = "classnames" THEN o.classnames
                  ELSE Braced(p.name)
         IN t \o SubString(Tail(pieces), o)

\* col._renderToken || col.key || col._yuid
RenderToken(col) ==
    IF col._renderToken # "" THEN col._renderToken
    ELSE IF col.key # "" THEN col.key ELSE col._yuid

\* value === undefined || value === '' ? col.emptyCellValue || '' : value
OrEmptyCellValue(col, value) ==
    IF value = Undefined \/ value = <<>>
    THEN IF col.emptyCellValue = Undefined THEN <<>> ELSE col.emptyCellValue
    ELSE value

\* col.allowHTML ? value : htmlEscape(value)
CellValue(col, value) == IF col.allowHTML THEN value ELSE htmlEscape(value)

\* One pass of the for loop of _createRowHTML: column i of the row, where st
\* holds data, values, the call log and whether a formatter threw.
RowStep(self, index, i, st) ==
    LET col     == self.columns[i]
        value   == Get(st.data, col.key)
        token   == RenderToken(col)
        values1 == Put(st.values, token \o "-classes", <<>>)
        logged  == Append(st.calls, Call("formatter", index, i - 1))
    IN  CASE col.formatter.type = "none" ->
                [st EXCEPT !.values =
                    Put(values1, token, CellValue(col, OrEmptyCellValue(col, value)))]
          [] col.formatter.type = "string" ->
                [st EXCEPT !.values =
                    Put(values1, token,
                        CellValue(col, OrEmptyCellValue(col,
                            SubString(col.formatter.template,
                                      FormatterData(value, st.data)))))]
          [] col.formatter.type = "throws" ->
                [st EXCEPT !.calls = logged, !.thrown = "Error"]
          [] OTHER ->
                LET o   == Mutated(col.formatter, FormatterData(value, st.data))
                    ret == IF col.formatter.returns = Undefined THEN o.value
                           ELSE col.formatter.returns
                IN  [st EXCEPT !.calls = logged,
                               !.data = o.data,
                               !.values =
                                   Put(Put(values1, token \o "-classes", o.classnames),
                                       token, CellValue(col, OrEmptyCellValue(col, ret)))]

RECURSIVE RowFromPastThrow(_, _, _, _)
\* A for loop that goes on to the later columns after a formatter threw.
RowFromPastThrow(self, index, i, st) ==
    IF i > Len(self.columns) THEN st
    ELSE RowFromPastThrow(self, index, i + 1, RowStep(self, index, i, st))

RECURSIVE RowFrom(_, _, _, _)
\* The for loop of _createRowHTML, from column i on.
RowFrom(self, index, i, st) ==
    IF i > Len(self.columns) \/ st.thrown # "" THEN st
    ELSE RowFrom(self, index, i + 1, RowStep(self, index, i, st))

\* The values object at the start of _createRowHTML.
RowValues(index) ==
    Put(EmptyObject, "rowClasses", IF index % 2 # 0 THEN CLASS_ODD ELSE CLASS_EVEN)

\* Y.Lang.sub of the row template with the values object.  A rendered cell
\* also carries what the node pass does to its Node: the content injected
\* into it and whether a Node instance for it is in the Node cache.
RowMarkup(template, values) ==
    [id         |-> fromTemplate(template.id, values),
     rowClasses |-> fromTemplate(template.rowClasses, values),
     cells      |-> [c \in 1..Len(template.content) |->
                        [classes  |-> [className |-> template.content[c].classes.className,
                                       extra |-> fromTemplate(
                                           template.content[c].classes.extra, values)],
                         content  |-> fromTemplate(template.content[c].content, values),
                         injected |-> <<>>,
                         node     |-> "none"]]]

\* The markup of one Model, the formatter calls made for it, and whether a
\* formatter threw.
_createRowHTML(self, model, index) ==
    LET st == RowFrom(self, index, 1,
                      [data |-> model.attrs, values |-> RowValues(index),
                       calls |-> self.calls, thrown |-> ""])
    IN  [html   |-> RowMarkup(self._rowTemplate, st.values),
         calls  |-> st.calls,
         thrown |-> st.thrown]

RECURSIVE DataFrom(_, _, _)
\* data.each of _createDataHTML, from the Model at index on: acc holds the
\* html so far.
DataFrom(self, index, acc) ==
    IF index >= Len(self.modelList.models) \/ acc.thrown # "" THEN acc
    ELSE LET row == _createRowHTML([self EXCEPT !.calls = acc.calls],
                                   self.modelList.models[index + 1], index)
         IN  DataFrom(self, index + 1,
                      [html |-> Append(acc.html, row.html), calls |-> row.calls,
                       thrown |-> row.thrown])

\* The markup of all Models of the modelList.
_createDataHTML(self, cols) ==
    IF self.modelList.present
    THEN DataFrom(self, 0,
                  [html |-> <<>>, calls |-> Append(self.calls, Call("each", -1, -1)),
                   thrown |-> ""])
    ELSE [html |-> <<>>, calls |-> self.calls, thrown |-> ""]

----------------------------------------------------------------------------
(* _applyNodeFormatters *)

\* The nodeFormatter columns collected last column first.
NodeFormatterColumnsReversed(cols) ==
    LET found == SelectSeq([i \in 1..Len(cols) |-> i],
                           LAMBDA i : cols[i].nodeFormatter.type # "none")
    IN  [j \in 1..Len(found) |-> found[Len(found) + 1 - j]]

\* The indexes (from 1) of the columns that have a nodeFormatter.
NodeFormatterColumns(cols) ==
    SelectSeq([i \in 1..Len(cols) |-> i],
              LAMBDA i : cols[i].nodeFormatter.type # "none")

\* A node pass that releases the Node on every falsy return value.
NodeStepReleasingFalsy(self, cols, index, c) ==
    LET rows   == self.container.rows
        logged == Append(self.calls, Call("nodeFormatter", index, c - 1))
    IN  IF index + 1 > Len(rows) \/ c > Len(rows[index + 1].cells) THEN self
        ELSE IF cols[c].nodeFormatter.type = "throws"
        THEN [self EXCEPT !.calls = logged, !.thrown = "Error"]
        ELSE [self EXCEPT
                !.calls = logged,
                !.container.rows[index + 1].cells[c].injected =
                    cols[c].nodeFormatter.injects,
                !.container.rows[index + 1].cells[c].node =
                    IF cols[c].nodeFormatter.returns
                           \in {<<"false">>, <<"undefined">>, <<"0">>, <<"null">>, <<>>}
                    THEN "destroyed" ELSE "cached"]

\* One nodeFormatter call: the cell of column c in the row at index.  Y.one
\* puts a Node for the cell into the Node cache; cell.destroy(true) takes it
\* out again and leaves the DOM element and its content (lines 64-67).
NodeStep(self, cols, index, c) ==
    LET rows   == self.container.rows
        logged == Append(self.calls, Call("nodeFormatter", index, c - 1))
    IN  IF index + 1 > Len(rows) \/ c > Len(rows[index + 1].cells) THEN self
        ELSE IF cols[c].nodeFormatter.type = "throws"
        THEN [self EXCEPT !.calls = logged, !.thrown = "Error"]
        ELSE [self EXCEPT
                !.calls = logged,
                !.container.rows[index + 1].cells[c].injected =
                    cols[c].nodeFormatter.injects,
                !.container.rows[index + 1].cells[c].node =
                    IF cols[c].nodeFormatter.returns = False THEN "destroyed"
                    ELSE "cached"]

RECURSIVE NodeRowFrom(_, _, _, _, _)
\* The inner for loop of _applyNodeFormatters, from formatter j on.
NodeRowFrom(self, cols, formatters, index, j) ==
    IF j > Len(formatters) \/ self.thrown # "" THEN self
    ELSE NodeRowFrom(NodeStep(self, cols, index, formatters[j]), cols, formatters,
                     index, j + 1)

RECURSIVE NodeDataFrom(_, _, _, _)
\* data.each of _applyNodeFormatters, from the Model at index on.
NodeDataFrom(self, cols, formatters, index) ==
    IF index >= Len(self.modelList.models) \/ self.thrown # "" THEN self
    ELSE NodeDataFrom(NodeRowFrom(self, cols, formatters, index, 1), cols, formatters,
                      index + 1)

\* Calls the nodeFormatters of the columns on the cells of the container.
_applyNodeFormatters(self, cols) ==
    LET formatters == NodeFormatterColumns(cols) IN
    IF self.modelList.present /\ Len(formatters) > 0
    THEN NodeDataFrom([self EXCEPT !.calls = Append(@, Call("each", -1, -1))],
                      cols, formatters, 0)
    ELSE self

----------------------------------------------------------------------------
(* bindUI, render and the change handlers *)

\* Subscribes to the source's columnsChange and to the modelList's events,
\* once each.  data.after on a missing modelList is a TypeError.
bindUI(self) ==
    LET handles == self._eventHandles
        bound   == [self EXCEPT !._eventHandles.columnsChange =
                                    handles.columnsChange \/ self.source]
    IN  IF handles.dataChange THEN bound
        ELSE IF self.modelList.present
        THEN [bound EXCEPT !._eventHandles.dataChange = TRUE]
        ELSE [bound EXCEPT !.thrown = "TypeError"]

\* tbody.setContent(html)
setContent(self, html) ==
    [self EXCEPT !.container.rows = html,
                 !.calls = Append(@, Call("setContent", -1, -1))]

\* render(): the instance after the call; thrown is "" when it returned this.
render(self) ==
    LET this     == [self EXCEPT !.calls = <<>>, !.thrown = ""]
        template == _createRowTemplate(this, this.columns)
        data     == _createDataHTML(template, template.columns)
        body     == IF template.container.present /\ template.modelList.present
                    THEN IF data.thrown # ""
                         THEN [template EXCEPT !.calls = data.calls,
                                               !.thrown = data.thrown]
                         ELSE _applyNodeFormatters(
                                  setContent([template EXCEPT !.calls = data.calls],
                                             data.html),
                                  template.columns)
                    ELSE template
    IN  IF body.thrown # "" THEN body ELSE bindUI(body)

\* A handler that renders with the columns it has and flattens the new
\* ones afterwards.
RenderBeforeParse(self, newVal) ==
    [render(self) EXCEPT !.columns = _parseColumns(newVal, <<>>)]

\* _afterColumnsChange(e)
_afterColumnsChange(self, newVal) ==
    render([self EXCEPT !.columns = _parseColumns(newVal, <<>>)])

\* A data change handler that does not render.
AfterDataChangeWithoutRender(self) == self

\* _afterDataChange(e)
_afterDataChange(self) == render(self)

\* initializer(config)
initializer(config) ==
    /\ source = config.source
    /\ srcColumns = config.columns
    /\ columns = _parseColumns(config.columns, <<>>)
    /\ _rowTemplate = [unset |-> TRUE]
    /\ container = [present |-> config.container, rows |-> <<>>]
    /\ modelList = config.modelList
    /\ _eventHandles = [columnsChange |-> FALSE, dataChange |-> FALSE]
    /\ calls = <<>>
    /\ last = [op |-> "initializer", notified |-> FALSE, returned |-> ""]

\* The instance after a method ran on it.
Becomes(self, op, notified) ==
    /\ columns' = self.columns
    /\ _rowTemplate' = self._rowTemplate
    /\ container' = self.container
    /\ _eventHandles' = self._eventHandles
    /\ calls' = self.calls
    /\ last' = [op |-> op, notified |-> notified,
                returned |-> IF self.thrown = "" THEN "this" ELSE self.thrown]

\* The host calls render().
Render ==
    /\ Becomes(render(Self), "render", FALSE)
    /\ UNCHANGED <<source, srcColumns, modelList>>

\* The source's columns attribute is set to newVal; the view's subscriber,
\* if render() has bound it, runs before set returns.
ColumnsChange(newVal) ==
    /\ source
    /\ srcColumns' = newVal
    /\ IF _eventHandles.columnsChange
       THEN Becomes(_afterColumnsChange(Self, newVal), "columnsChange", TRUE)
       ELSE /\ last' = [op |-> "columnsChange", notified |-> FALSE, returned |-> ""]
            /\ UNCHANGED <<columns, _rowTemplate, container, _eventHandles, calls>>
    /\ UNCHANGED <<source, modelList>>

\* The modelList changes to models (a Model added, removed, changed, or the
\* list reset); the view's subscriber, if bound, runs before the change returns.
DataChange(models) ==
    /\ modelList.present
    /\ modelList' = [modelList EXCEPT !.models = models]
    /\ IF _eventHandles.dataChange
       THEN Becomes(_afterDataChange([Self EXCEPT !.modelList.models = models]),
                    "dataChange", TRUE)
       ELSE /\ last' = [op |-> "dataChange", notified |-> FALSE, returned |-> ""]
            /\ UNCHANGED <<columns, _rowTemplate, container, _eventHandles, calls>>
    /\ UNCHANGED <<source, srcColumns>>

----------------------------------------------------------------------------
(* Configurations the view is constructed with *)

\* Bounds of the model.
MaxParseCols == 2

MaxDepth == 2

MaxTokenCols == 4

MaxRowCols == 3

MaxCols == 2

MaxModels == 2

MaxNodeCols == 2

\* Every list of at most n elements of S.
SeqsUpTo(S, n) == UNION {[1..k -> S] : k \in 0..n}

\* The host stamps every column object with a unique _yuid.
Stamped(cols) == [i \in 1..Len(cols) |-> [cols[i] EXCEPT !._yuid = "yui_" \o ToString(i)]]

\* A column with a key and nothing else.
KeyColumn(key) ==
    Column(key, "", NoFormatter, NoFormatter, Undefined, FALSE, NotArray, "")

\* A formatter that returns nothing and assigns nothing.
IdleFormatter == FunctionFormatter(Undefined, Keep, Keep, Keep)

\* A nodeFormatter that injects "node" and returns false.
FalseNodeFormatter == NodeFormatter(False, <<"n", "o", "d", "e">>)

\* A nodeFormatter that injects "kept" and returns nothing.
KeepNodeFormatter == NodeFormatter(Undefined, <<"k", "e", "p", "t">>)

\* Column entries without children: a keyed column, a column given as a
\* string, columns with only a formatter or only a nodeFormatter, and an
\* entry with none of key, formatter, nodeFormatter, children.
Leaves ==
    { KeyColumn("a"),
      Shorthand("b"),
      Column("", "f", IdleFormatter, NoFormatter, Undefined, FALSE, NotArray, ""),
      Column("", "", NoFormatter, FalseNodeFormatter, Undefined, FALSE, NotArray, ""),
      Column("", "bad", NoFormatter, NoFormatter, Undefined, FALSE, NotArray, "") }

RECURSIVE Entries(_)
\* Column entries nested at most depth deep: the leaves, and columns with
\* children (with and without a key of their own).
Entries(depth) ==
    IF depth = 0 THEN Leaves
    ELSE Leaves \cup
         { Column(key, "", NoFormatter, NoFormatter, Undefined, FALSE, Arr(ch), "") :
             key \in {"", "p"}, ch \in SeqsUpTo(Entries(depth - 1), MaxParseCols) }

\* The column configurations of the flattening: nested lists, and a value
\* that is no array.
NestedColumns ==
    {NotArray} \cup {Arr(cols) : cols \in SeqsUpTo(Entries(MaxDepth - 1), MaxParseCols)}

\* Columns that differ in what decides their token: key, name, nodeFormatter.
TokenColumns ==
    { Column(key, name, NoFormatter, nf, Undefined, FALSE, NotArray, "") :
        key \in {"", "x", "x1"}, name \in {"", "n"},
        nf \in {NoFormatter, FalseNodeFormatter} }

\* Cell texts.
Texts == { <<>>, <<"<", "a", ">">> }

\* Formatters of the rendered columns: none, a string template, and
\* functions that return or assign a value, class names and row classes.
Formatters ==
    { NoFormatter,
      StringFormatter(<<Lit(<<"#">>), Ph("value")>>),
      IdleFormatter,
      FunctionFormatter(<<"R", "&">>, <<"V">>, <<"h", "l">>, Keep),
      FunctionFormatter(Undefined, <<"V", ">">>, <<"h", "l">>, <<"m", "i", "n", "e">>) }

\* Columns that differ in what decides their cell: key, formatter,
\* emptyCellValue, allowHTML.
RowColumns ==
    { Column(key, "", f, NoFormatter, ecv, html, NotArray, "") :
        key \in {"x", "x1"}, f \in Formatters,
        ecv \in {Undefined, <<"<", "N", ">">>}, html \in BOOLEAN }

\* The Models of the row rendering: attribute x undefined, '' or '<a>'.
RowModels ==
    { Model("m1", [k \in {"x", "x1"} |-> IF k = "x" THEN v ELSE <<"b">>]) :
        v \in Texts \cup {Undefined} }

\* Columns of the life cycle: with a formatter, with a nodeFormatter, and
\* with a formatter or nodeFormatter that throws.
LifeColumns ==
    { Column("x", "", FunctionFormatter(Undefined, <<"V">>, <<"h", "l">>, Keep),
             NoFormatter, Undefined, FALSE, NotArray, ""),
      Column("", "n", NoFormatter, FalseNodeFormatter, Undefined, FALSE, NotArray, ""),
      Column("x", "", ThrowingFormatter, NoFormatter, Undefined, FALSE, NotArray, ""),
      Column("x", "", NoFormatter, ThrowingFormatter, Undefined, FALSE, NotArray, "") }

\* What a nodeFormatter may return: false, undefined, 0, null, '' and true.
NodeReturns == {False, Undefined, <<"0">>, <<"null">>, <<>>, <<"true">>}

\* Columns of the node pass: without a nodeFormatter, and with one for every
\* return value, injecting nothing or 'i'.
NodePassColumns ==
    { KeyColumn("x") } \cup
    { Column("x", "", NoFormatter, NodeFormatter(ret, inj), Undefined, FALSE,
             NotArray, "") :
        ret \in NodeReturns, inj \in {<<>>, <<"i">>} }

LifeConfigs == {Arr(Stamped(cols)) : cols \in SeqsUpTo(LifeColumns, MaxCols)}

\* The Models of the life cycle: clientIds m1..mMaxModels, x undefined or 'a'.
LifeModels ==
    { Model("m" \o ToString(i), [k \in {"x"} |-> v]) :
        i \in 1..MaxModels, v \in {Undefined, <<"a">>} }

\* Lists of Models with distinct clientIds.
LifeLists ==
    { l \in SeqsUpTo(LifeModels, MaxModels) :
        \A i, j \in 1..Len(l) : i # j => l[i].clientId # l[j].clientId }

----------------------------------------------------------------------------
(* Specifications *)

\* The flattening: views constructed over nested column configurations.
InitParse ==
    \E cols \in NestedColumns :
        initializer([source |-> FALSE, columns |-> cols, container |-> TRUE,
                     modelList |-> [present |-> TRUE, models |-> <<>>]])

SpecParse == InitParse /\ [][Render]_vars

\* The names the implementer gives to columns are distinct.
DistinctNames(cols) ==
    \A i, j \in 1..Len(cols) :
        (i # j /\ cols[i].name # "") => cols[i].name # cols[j].name

\* The row template: views over columns with repeated keys.
InitTemplate ==
    \E cols \in SeqsUpTo(TokenColumns, MaxTokenCols) :
        /\ DistinctNames(cols)
        /\ initializer([source |-> FALSE, columns |-> Arr(Stamped(cols)),
                        container |-> TRUE,
                        modelList |-> [present |-> TRUE, models |-> <<>>]])

SpecTemplate == InitTemplate /\ [][Render]_vars

\* The row rendering: views over columns with formatters, and two Models
\* with the same attributes (an even and an odd row).
InitRow ==
    \E cols \in SeqsUpTo(RowColumns, MaxRowCols), m \in RowModels :
        initializer([source |-> FALSE, columns |-> Arr(Stamped(cols)),
                     container |-> TRUE,
                     modelList |-> [present |-> TRUE,
                                    models |-> <<Model("m0", m.attrs), m>>]])

SpecRow == InitRow /\ [][Render]_vars

\* The node pass: views over columns with nodeFormatters.
InitNode ==
    \E cols \in SeqsUpTo(NodePassColumns, MaxNodeCols), list \in LifeLists :
        initializer([source |-> FALSE, columns |-> Arr(Stamped(cols)),
                     container |-> TRUE,
                     modelList |-> [present |-> TRUE, models |-> list]])

SpecNode == InitNode /\ [][Render]_vars

\* The life cycle: render() and the changes of columns and Models.
Init ==
    \E src \in BOOLEAN, cols \in LifeConfigs, tbody \in BOOLEAN,
       list \in {[present |-> FALSE, models |-> <<>>]} \cup
                {[present |-> TRUE, models |-> l] : l \in LifeLists} :
        initializer([source |-> src, columns |-> cols, container |-> tbody,
                     modelList |-> list])

\* A Model is added at the end of the list.
Add ==
    \E m \in LifeModels :
        /\ Len(modelList.models) < MaxModels
        /\ \A i \in 1..Len(modelList.models) : modelList.models[i].clientId # m.clientId
        /\ DataChange(Append(modelList.models, m))

\* The Model at position i is removed.
Remove ==
    \E i \in 1..Len(modelList.models) :
        DataChange(SubSeq(modelList.models, 1, i - 1) \o
                             SubSeq(modelList.models, i + 1, Len(modelList.models)))

\* Attribute x of the Model at position i is set.
Change ==
    \E i \in 1..Len(modelList.models), v \in {Undefined, <<"a">>} :
        /\ modelList.models[i].attrs["x"] # v
        /\ DataChange([modelList.models EXCEPT ![i].attrs["x"] = v])

\* The list is reset to no Models.
Reset == DataChange(<<>>)

\* The columns of the source are replaced.
SetColumns == \E newVal \in LifeConfigs : ColumnsChange(newVal)

Next == Render \/ SetColumns \/ Add \/ Remove \/ Change \/ Reset

Spec == Init /\ [][Next]_vars

----------------------------------------------------------------------------
(* Render tokens *)

\* The number of columns before column i that carry the key of column i.
Earlier(i) == Cardinality({j \in 1..(i - 1) : columns[j].key = columns[i].key})

\* C1: after _createRowTemplate has run, the render tokens of the columns
\* are pairwise distinct, and of the columns that carry the same key the
\* first has the bare key as its token, the second key1, the third key2.
C1_TokensDistinct ==
    last.op = "render" =>
        /\ \A i, j \in 1..Len(columns) :
               i # j => columns[i]._renderToken # columns[j]._renderToken
        /\ \A i \in 1..Len(columns) :
               columns[i].key # "" =>
                   columns[i]._renderToken =
                       IF Earlier(i) = 0 THEN columns[i].key
                       ELSE columns[i].key \o ToString(Earlier(i))

----------------------------------------------------------------------------
(* Flattening *)

\* A column as configured: without the index and token the view assigns.
AsConfigured(col) == [col EXCEPT !.index = -1, !._renderToken = ""]

RECURSIVE Carrying(_)
\* Every column of a nested configuration that carries key, formatter or
\* nodeFormatter, depth first, each before its children.
Carrying(data) ==
    IF ~isArray(data) \/ data.items = <<>> THEN <<>>
    ELSE LET col  == toColumn(Head(data.items))
             self == IF col.key # "" \/ col.formatter.type # "none"
                        \/ col.nodeFormatter.type # "none"
                     THEN <<col>> ELSE <<>>
         IN  self \o Carrying(col.children) \o Carrying(Arr(Tail(data.items)))

\* C2: the flat list holds exactly the columns of the configuration that
\* carry key, formatter or nodeFormatter, in depth-first order, and each
\* column's index is its position in the list.
C2_FlatIsCarrying ==
    /\ [i \in 1..Len(columns) |-> AsConfigured(columns[i])] = Carrying(srcColumns)
    /\ \A i \in 1..Len(columns) : columns[i].index = i - 1

----------------------------------------------------------------------------
(* Rendered rows *)

\* The rows and cells of the container.
Rows == 1..Len(container.rows)

Cells(r) == 1..Len(container.rows[r].cells)

\* The Model row r was rendered from.
ModelOf(r) == modelList.models[r]

\* The columns whose formatter assigns o.data.rowClasses.
RowClassWriters ==
    {c \in 1..Len(columns) :
        columns[c].formatter.type = "function"
        /\ columns[c].formatter.setsRowClasses # Keep}

\* The greatest element of a non-empty set of numbers.
Last(S) == CHOOSE c \in S : \A d \in S : d <= c

\* C3: a rendered row carries the even class when its index is even and
\* the odd class otherwise, unless a formatter of one of its columns
\* assigned o.data.rowClasses, and then it carries the value assigned.
C3_RowClasses ==
    (last.op = "render" /\ last.returned = "this") =>
        \A r \in Rows :
            container.rows[r].rowClasses =
                Lit(IF RowClassWriters # {}
                    THEN columns[Last(RowClassWriters)].formatter.setsRowClasses
                    ELSE IF (r - 1) % 2 = 0 THEN CLASS_EVEN ELSE CLASS_ODD)

\* The value computed for a cell: the attribute of the Model when the column
\* has no formatter, and otherwise the result of the formatter (what a
\* function returns or, when it returns undefined, o.value as it left it).
Computed(model, col) ==
    LET value == Get(model.attrs, col.key) IN
    CASE col.formatter.type = "none" -> value
      [] col.formatter.type = "string" ->
            SubString(col.formatter.template, FormatterData(value, model.attrs))
      [] OTHER ->
            IF col.formatter.returns # Undefined THEN col.formatter.returns
            ELSE IF col.formatter.setsValue # Keep THEN col.formatter.setsValue
            ELSE value

\* The text a value shows as in a cell of the column: escaped unless the
\* column allows HTML.
Shown(col, text) == IF col.allowHTML THEN text ELSE htmlEscape(text)

\* The emptyCellValue of the column, '' when it is unset.
EmptyCellValue(col) ==
    IF col.emptyCellValue = Undefined THEN <<>> ELSE col.emptyCellValue

\* C4: a cell whose computed value is '' or undefined shows the column's
\* emptyCellValue ('' when unset), and a cell with any other computed value
\* shows that value.
C4_EmptyCellValue ==
    (last.op = "render" /\ last.returned = "this") =>
        \A r \in Rows : \A c \in Cells(r) :
            LET value == Computed(ModelOf(r), columns[c]) IN
            container.rows[r].cells[c].content =
                Lit(Shown(columns[c],
                          IF value \in {<<>>, Undefined}
                          THEN EmptyCellValue(columns[c]) ELSE value))

\* C5: the cell of a column with a function formatter shows what the
\* formatter returned, even when it also assigned o.value, and o.value when
\* it returned undefined; its class placeholder holds o.classnames as the
\* formatter left it, '' when it assigned none.
C5_FormatterResult ==
    (last.op = "render" /\ last.returned = "this") =>
        \A r \in Rows : \A c \in Cells(r) :
            LET f        == columns[c].formatter
                oValue   == IF f.setsValue # Keep THEN f.setsValue
                            ELSE Get(ModelOf(r).attrs, columns[c].key)
                result   == IF f.returns # Undefined THEN f.returns ELSE oValue
            IN  f.type = "function" =>
                  /\ container.rows[r].cells[c].classes.extra =
                         Lit(IF f.setsClassnames = Keep THEN <<>> ELSE f.setsClassnames)
                  /\ \/ result \in {<<>>, Undefined}
                     \/ container.rows[r].cells[c].content =
                            Lit(Shown(columns[c], result))

\* The characters of a text.
Chars(text) == {text[i] : i \in 1..Len(text)}

\* C6: the cell of a column without nodeFormatter shows its final value
\* escaped when allowHTML is not true and verbatim when it is, and no cell
\* of a column whose allowHTML is false holds an unescaped < or >.
C6_Escaped ==
    (last.op = "render" /\ last.returned = "this") =>
        \A r \in Rows : \A c \in Cells(r) :
            LET value == Computed(ModelOf(r), columns[c])
                final == IF value \in {<<>>, Undefined}
                         THEN EmptyCellValue(columns[c]) ELSE value
                shown == container.rows[r].cells[c].content
            IN  columns[c].nodeFormatter.type = "none" =>
                  /\ ~shown.ph
                  /\ columns[c].allowHTML => shown.text = final
                  /\ ~columns[c].allowHTML =>
                        /\ shown.text = htmlEscape(final)
                        /\ Chars(shown.text) \cap {"<", ">"} = {}

\* The render tokens of the columns are pairwise distinct.
TokensDistinct ==
    \A i, j \in 1..Len(columns) :
        i # j => RenderToken(columns[i]) # RenderToken(columns[j])

\* C4, C5 and C6 hold of every render in which no two columns share a token.
CellsUnlessTokensCollide ==
    TokensDistinct => (C4_EmptyCellValue /\ C5_FormatterResult /\ C6_Escaped)

----------------------------------------------------------------------------
(* render() and the change handlers *)

\* C7: render() without a container or without a modelList returns the
\* instance without an error, writes nothing to the container and calls no
\* formatter.
C7_RenderWithoutData ==
    (last.op = "render" /\ (~container.present \/ ~modelList.present)) =>
        /\ last.returned = "this"
        /\ container.rows = <<>>
        /\ calls = <<>>

\* C8: a render() call returns the instance, and a second render() right
\* after it leaves the container, the row template, the tokens and indexes
\* of the columns and the subscriptions as the first left them.  (A call
\* that a throwing formatter aborted is left aside.)
C8_RenderIdempotent ==
    (last.op = "render" /\ last.returned # "Error") =>
        LET again == render(Self) IN
        /\ last.returned = "this"
        /\ again.thrown = ""
        /\ again.container = container
        /\ again._rowTemplate = _rowTemplate
        /\ again.columns = columns
        /\ again._eventHandles = _eventHandles

\* Every Model has its row, every row a cell per column, and every cell of
\* a nodeFormatter column has been passed to its nodeFormatter.
BodyComplete ==
    /\ Len(container.rows) = Len(modelList.models)
    /\ \A r \in Rows :
          /\ Len(container.rows[r].cells) = Len(columns)
          /\ \A c \in Cells(r) :
                columns[c].nodeFormatter.type # "none" =>
                    container.rows[r].cells[c].node # "none"

\* The view as render() leaves it when it starts from an empty container
\* with the columns the last change calls for.
Fresh ==
    render([Self EXCEPT
              !.columns = IF last.op = "columnsChange"
                          THEN _parseColumns(srcColumns, <<>>) ELSE columns,
              !.container.rows = <<>>])

\* The body is what a render from scratch of the current columns and Models
\* produces.
BodyRerendered ==
    /\ columns = Fresh.columns
    /\ _rowTemplate = Fresh._rowTemplate
    /\ container.rows = Fresh.container.rows
    /\ (container.present /\ modelList.present) => BodyComplete

\* C9 as stated: whenever a change of the columns or of the modelList has
\* been notified to the view, the body has been rendered from scratch, in
\* full.
C9_AlwaysRerendered == last.notified => BodyRerendered

\* C9 as amended: whenever a change of the columns or of the modelList has
\* been notified to the view, the body has been rendered from scratch, in
\* full, unless a formatter or nodeFormatter threw during that render.
C9_RerenderedUnlessThrown ==
    (last.notified /\ last.returned # "Error") => BodyRerendered

\* A columns change and a modelList change were each followed by a full
\* render: two rows of two cells stand in the container after a notified
\* change.
C9_Witness ==
    /\ last.notified
    /\ last.returned = "this"
    /\ Len(container.rows) = 2
    /\ Len(columns) = 2
    /\ BodyComplete

\* The positions of the call log with calls of fn.
CallsOf(fn) == {i \in 1..Len(calls) : calls[i].fn = fn}

\* The nodeFormatter calls of a complete node pass: Model by Model, and for
\* each Model column by column.
RECURSIVE NodeCalls(_, _)
NodeCalls(index, cols) ==
    IF index >= Len(modelList.models) THEN <<>>
    ELSE [j \in 1..Len(cols) |-> Call("nodeFormatter", index, cols[j] - 1)]
         \o NodeCalls(index + 1, cols)

\* The positions of the columns that have a nodeFormatter, in column order.
NodeColumns ==
    SelectSeq([c \in 1..Len(columns) |-> c],
              LAMBDA c : columns[c].nodeFormatter.type # "none")

\* The columns with a formatter that is a function (one that throws
\* included): those whose formatter calls are logged.
CalledColumns ==
    {c \in 1..Len(columns) : columns[c].formatter.type \in {"function", "throws"}}

\* C10: in a render pass every nodeFormatter call comes after the bulk pass
\* has called the formatters of every column for every Model and the markup
\* has been written; the nodeFormatter calls go Model by Model and column by
\* column; and without a nodeFormatter column the modelList is iterated once
\* and no nodeFormatter is called.
C10_NodePassAfterBulk ==
    last.returned # "" =>
        LET nodeCalls == SelectSeq(calls, LAMBDA c : c.fn = "nodeFormatter")
            expected  == NodeCalls(0, NodeColumns)
        IN  /\ \A i \in CallsOf("nodeFormatter") :
                  /\ \E j \in CallsOf("setContent") : j < i
                  /\ \A k \in CallsOf("formatter") : k < i
            /\ CallsOf("nodeFormatter") # {} =>
                  Cardinality(CallsOf("formatter")) =
                      Len(modelList.models) * Cardinality(CalledColumns)
            /\ Len(nodeCalls) <= Len(expected)
            /\ nodeCalls = SubSeq(expected, 1, Len(nodeCalls))
            /\ last.returned = "this" /\ container.present /\ modelList.present
                  => nodeCalls = expected
            /\ NodeColumns = <<>> =>
                  /\ CallsOf("nodeFormatter") = {}
                  /\ Cardinality(CallsOf("each")) <= 1

\* A node pass over two Models and two nodeFormatter columns has run.
C10_Witness ==
    /\ last.returned = "this"
    /\ Cardinality(CallsOf("nodeFormatter")) = 4
    /\ CallsOf("setContent") # {}

----------------------------------------------------------------------------
(* The Node cache after the node pass *)

\* The markup the bulk pass produces for the current columns and Models.
BulkMarkup == _createDataHTML(Self, columns).html

\* C11: after the node pass the Node of a cell is released if and only if
\* the nodeFormatter of its column returned exactly false; every other
\* return value (undefined, 0, null, '') leaves it in the Node cache; and
\* either way the cell is still in the container with the markup of the
\* bulk pass and the content the nodeFormatter injected.
C11_ReleasedIffFalse ==
    (last.op = "render" /\ last.returned = "this") =>
        \A r \in Rows :
            /\ Len(container.rows[r].cells) = Len(columns)
            /\ \A c \in Cells(r) :
                  LET nf   == columns[c].nodeFormatter
                      cell == container.rows[r].cells[c]
                  IN  /\ cell.classes = BulkMarkup[r].cells[c].classes
                      /\ cell.content = BulkMarkup[r].cells[c].content
                      /\ nf.type = "none" => cell.node = "none" /\ cell.injected = <<>>
                      /\ nf.type = "function" =>
                            /\ cell.node = "destroyed" <=> nf.returns = False
                            /\ cell.node = "cached" <=> nf.returns # False
                            /\ cell.injected = nf.injects

\* A row with a released cell whose nodeFormatter returned false next to a
\* retained cell whose nodeFormatter returned '', both with injected content.
C11_Witness ==
    /\ last.op = "render" /\ last.returned = "this"
    /\ \E r \in Rows : \E c, d \in Cells(r) :
          /\ columns[c].nodeFormatter.returns = False
          /\ container.rows[r].cells[c].node = "destroyed"
          /\ container.rows[r].cells[c].injected = <<"i">>
          /\ columns[d].nodeFormatter.type = "function"
          /\ columns[d].nodeFormatter.returns = <<>>
          /\ container.rows[r].cells[d].node = "cached"
          /\ container.rows[r].cells[d].injected = <<"i">>

----------------------------------------------------------------------------
(* Formatters that throw *)

\* The call was made to a formatter or nodeFormatter that throws.
Thrower(call) ==
    IF call.fn = "formatter" THEN columns[call.col + 1].formatter.type = "throws"
    ELSE IF call.fn = "nodeFormatter"
    THEN columns[call.col + 1].nodeFormatter.type = "throws"
    ELSE FALSE

\* Call a is for an earlier Model than call b, or for the same Model and an
\* earlier column.
Before(a, b) == a.row < b.row \/ (a.row = b.row /\ a.col < b.col)

\* The state a render is left in when a formatter or nodeFormatter threw:
\* the throwing call is the last call of the pass and the only call of a
\* throwing function, every call of its pass was for an earlier Model or
\* column, the row template and tokens built before it are kept, and when
\* it was a nodeFormatter the markup written and the nodes handled before
\* it are kept and no later cell has been handled.
AbortedAtThrow ==
    last.returned = "Error" =>
        LET n == Len(calls) IN
        /\ n > 0
        /\ Thrower(calls[n])
        /\ \A i \in 1..(n - 1) :
              /\ ~Thrower(calls[i])
              /\ calls[i].fn = calls[n].fn => Before(calls[i], calls[n])
        /\ _rowTemplate = _createRowTemplate(Self, columns)._rowTemplate
        /\ calls[n].fn = "formatter" =>
              CallsOf("setContent") = {} /\ CallsOf("nodeFormatter") = {}
        /\ calls[n].fn = "nodeFormatter" =>
              /\ Cardinality(CallsOf("setContent")) = 1
              /\ Len(container.rows) = Len(modelList.models)
              /\ \A r \in Rows : \A c \in Cells(r) :
                    LET cell == container.rows[r].cells[c]
                        nf   == columns[c].nodeFormatter
                        call == Call("nodeFormatter", r - 1, c - 1)
                    IN  /\ cell.classes = BulkMarkup[r].cells[c].classes
                        /\ cell.content = BulkMarkup[r].cells[c].content
                        /\ IF nf.type = "function" /\ Before(call, calls[n])
                           THEN /\ cell.injected = nf.injects
                                /\ cell.node = IF nf.returns = False
                                               THEN "destroyed" ELSE "cached"
                           ELSE cell.injected = <<>> /\ cell.node = "none"

\* A step in which a formatter throws leaves the container as it was and
\* binds no subscription; a step in which a nodeFormatter throws binds none.
ThrowStep ==
    last'.returned = "Error" =>
        /\ _eventHandles' = _eventHandles
        /\ calls'[Len(calls')].fn = "formatter" => container' = container

\* C12: when a formatter or nodeFormatter throws, the error leaves render()
\* (the call ends with the error and without binding), the pass stops at
\* the throwing call (no formatter of a later column or Model is called),
\* what was done before it is kept, and the throwing call is made once.
C12_AbortsAtThrow == []AbortedAtThrow /\ [][ThrowStep]_vars

\* The nodeFormatter of the second column threw on the first of two Models,
\* after the nodeFormatter of the first column had handled its cell.
C12_Witness ==
    /\ last.returned = "Error"
    /\ calls[Len(calls)] = Call("nodeFormatter", 0, 1)
    /\ Len(container.rows) = 2
    /\ container.rows[1].cells[1].node = "destroyed"

----------------------------------------------------------------------------
(* The identity of a rendered row *)

\* C13: every rendered row has the {clientId} placeholder of ROW_TEMPLATE
\* replaced by the clientId of the Model it was rendered from: no row is
\* left with the placeholder or with the clientId of another Model.
C13_RowIdentity ==
    (last.op = "render" /\ last.returned = "this") =>
        \A r \in Rows :
            /\ ~container.rows[r].id.ph
            /\ container.rows[r].id.text = ModelOf(r).clientId

----------------------------------------------------------------------------
(* The row template of a render *)

\* The columns without the tokens a render assigned to them.
Untokened(cols) == [c \in 1..Len(cols) |-> [cols[c] EXCEPT !._renderToken = ""]]

\* The tokens and the cell templates derived from the current flat list.
Derived == TemplateFrom(Untokened(columns), 1, EmptyObject, <<>>)

\* C14: after a render, and after a replacement of the columns notified to
\* the view, the flat list is the flattening of the columns last set, the
\* tokens and the row template are the ones derived from that flat list,
\* and the rows the render wrote were produced from that template; this is
\* so also when a formatter threw in the first row, so the template was
\* rebuilt before any row was produced.
C14_TemplateOfCurrentColumns ==
    (last.op = "render" \/ last.notified) =>
        /\ (last.op = "columnsChange") =>
              Untokened(columns) = _parseColumns(srcColumns, <<>>)
        /\ columns = Derived.columns
        /\ _rowTemplate = [ROW_TEMPLATE EXCEPT !.content = Derived.html]
        /\ CallsOf("setContent") # {} =>
              /\ Len(container.rows) = Len(modelList.models)
              /\ \A r \in Rows :
                    /\ Len(container.rows[r].cells) = Len(columns)
                    /\ \A c \in Cells(r) :
                          LET cell == container.rows[r].cells[c] IN
                          /\ cell.classes.className = Derived.html[c].classes.className
                          /\ cell.classes = BulkMarkup[r].cells[c].classes
                          /\ cell.content = BulkMarkup[r].cells[c].content

\* A notified replacement by two columns has rendered the rows of two
\* Models from the template of the new columns.
C14_Witness ==
    /\ last.op = "columnsChange" /\ last.notified /\ last.returned = "this"
    /\ Len(columns) = 2 /\ columns[1].key = "x" /\ columns[2].name = "n"
    /\ Len(container.rows) = 2
    /\ Len(_rowTemplate.content) = 2

====
